---- MODULE Spec2Model ----
(***************************************************************************)
(* Alert-evaluation engine of the AgMCP Uganda advisory prototype:         *)
(* analyze_weather_conditions reduces a daily forecast to summary signals, *)
(* check_alerts matches the rule catalog ALERT_RULES against (district,    *)
(* crop, date, summary).                                                   *)
(*                                                                         *)
(* Representation.  Python strings that the code transforms or orders      *)
(* (district, crop, MM-DD dates) are sequences of code points, so that     *)
(* str.lower, strftime('%m-%d') and the lexicographic <= are computed.     *)
(* Rainfall, humidity and thresholds are integers; the two averages are    *)
(* exact fractions [num, den].  A dict is a function whose DOMAIN is its   *)
(* key set; a call that raises yields raised = TRUE.                       *)
(***************************************************************************)
EXTENDS Integers, Sequences, FiniteSets, TLC

VARIABLES ALERT_RULES, forecast, district, crop, current_date,
          weather_analysis, active_alerts, pc, response, screen, sessions

vars == <<ALERT_RULES, forecast, district, crop, current_date,
          weather_analysis, active_alerts, pc, response, screen, sessions>>

(***************************************************************************)
(* Bounds of the explored inputs                                           *)
(***************************************************************************)
MaxLen == 3

MaxLongLen == 8

MaxRules == 3

MaxSessions == 2

(***************************************************************************)
(* String literals of the source, as code points                           *)
(***************************************************************************)
s_all == <<97, 108, 108>>
s_wakiso == <<119, 97, 107, 105, 115, 111>>
s_gulu == <<103, 117, 108, 117>>
s_Wakiso == <<87, 97, 107, 105, 115, 111>>
s_Gulu == <<71, 117, 108, 117>>
s_Kabale == <<75, 97, 98, 97, 108, 101>>
s_WAKISO == <<87, 65, 75, 73, 83, 79>>
s_maize == <<109, 97, 105, 122, 101>>
s_Maize == <<77, 97, 105, 122, 101>>
s_beans == <<98, 101, 97, 110, 115>>
s_groundnuts == <<103, 114, 111, 117, 110, 100, 110, 117, 116, 115>>
s_sorghum == <<115, 111, 114, 103, 104, 117, 109>>
s_irish_potato == <<105, 114, 105, 115, 104, 95, 112, 111, 116, 97, 116, 111>>
s_climbing_beans == <<99, 108, 105, 109, 98, 105, 110, 103, 95, 98, 101, 97, 110, 115>>
s_Soroti == <<83, 111, 114, 111, 116, 105>>
s_Mbarara == <<77, 98, 97, 114, 97, 114, 97>>
s_rice == <<114, 105, 99, 101>>
s_bananas == <<98, 97, 110, 97, 110, 97, 115>>
d_04_01 == <<48, 52, 45, 48, 49>>
d_04_15 == <<48, 52, 45, 49, 53>>
d_05_15 == <<48, 53, 45, 49, 53>>
d_05_30 == <<48, 53, 45, 51, 48>>
d_06_15 == <<48, 54, 45, 49, 53>>
d_07_15 == <<48, 55, 45, 49, 53>>
d_12_15 == <<49, 50, 45, 49, 53>>
d_01_15 == <<48, 49, 45, 49, 53>>

(***************************************************************************)
(* Python primitives used by the engine                                    *)
(***************************************************************************)
EmptyDict == [k \in {} |-> 0]

\* No answer of the forecast provider yet
NoResponse == [kind |-> "none", daily |-> <<>>]

Get(d, k, default) == IF k \in DOMAIN d THEN d[k] ELSE default

lower(s) == [i \in DOMAIN s |-> IF s[i] >= 65 /\ s[i] <= 90 THEN s[i] + 32 ELSE s[i]]

Pad2(n) == <<48 + (n \div 10), 48 + (n % 10)>>

strftime(date) == Pad2(date.month) \o <<45>> \o Pad2(date.day)

RECURSIVE StrLess(_, _)
StrLess(a, b) ==
    IF b = <<>> THEN FALSE
    ELSE IF a = <<>> THEN TRUE
    ELSE IF Head(a) # Head(b) THEN Head(a) < Head(b)
    ELSE StrLess(Tail(a), Tail(b))

StrLe(a, b) == a = b \/ StrLess(a, b)

Slice(s, n) == SubSeq(s, 1, IF Len(s) < n THEN Len(s) ELSE n)

RECURSIVE SumField(_, _)
SumField(days, f) ==
    IF days = <<>> THEN 0 ELSE Head(days)[f] + SumField(Tail(days), f)

Frac(n, d) == [num |-> n, den |-> d]

FracGt(x, t) == x.num > t * x.den

\* round(x) to the nearest integer, ties to even, as the format '.0f' does
RoundHalfEven(x) ==
    LET q == x.num \div x.den
        r2 == 2 * (x.num % x.den)
    IN IF r2 < x.den THEN q
       ELSE IF r2 > x.den THEN q + 1
       ELSE IF q % 2 = 0 THEN q ELSE q + 1

\* '{:.1f}' of an integer amount and '{:.0f}' of an average: the digits shown
Format1f(x) == [whole |-> x, tenths |-> 0]

Format0f(x) == [whole |-> RoundHalfEven(x), tenths |-> 0]

NoValue == [whole |-> 0, tenths |-> 0]

(***************************************************************************)
(* ALERT_RULES of the two variants                                         *)
(***************************************************************************)
Rule(c, d, st, sd, ed, wc, at, p, t) ==
    [crop |-> c, district |-> d, season |-> 1, stage |-> st,
     start_date |-> sd, end_date |-> ed, weather_conditions |-> wc,
     alert_type |-> at, priority |-> p, title |-> t]

rule_maize_wakiso ==
    Rule(s_maize, s_wakiso, "fertilizer_top_dress", d_04_15, d_05_15,
         [rainfall_24h |-> 30, humidity |-> 85], "delay", "high",
         "Delay Nitrogen Top-Dressing")

rule_beans_all ==
    Rule(s_beans, s_all, "harvest", d_06_15, d_07_15,
         [rainfall_72h |-> 20], "urgent", "critical",
         "Harvest Beans Immediately")

rule_groundnuts_gulu ==
    Rule(s_groundnuts, s_gulu, "planting", d_04_01, d_05_15,
         [rainfall_forecast |-> "adequate"], "timing", "medium",
         "Optimal Groundnut Planting Time")

rule_maize_gulu ==
    Rule(s_maize, s_gulu, "pest_control", d_04_01, d_05_30,
         [temperature |-> 25, humidity |-> 70], "warning", "medium",
         "Fall Armyworm Risk Period")

rule_groundnuts_all ==
    Rule(s_groundnuts, s_all, "planting", d_04_01, d_05_15,
         [rainfall_forecast |-> "adequate"], "timing", "medium",
         "Optimal Groundnut Planting Time")

APP_ALERT_RULES ==
    <<rule_maize_wakiso, rule_beans_all, rule_groundnuts_gulu, rule_maize_gulu>>

APP2_ALERT_RULES ==
    <<rule_maize_wakiso, rule_beans_all, rule_groundnuts_all>>

(***************************************************************************)
(* analyze_weather_conditions                                              *)
(***************************************************************************)
\* Variants of the summary fields, as a slip in the code would leave them.
next_72h_rain_all_days(fc) == SumField(fc, "rainfall_mm")

rainy_days_ahead_ge(fc) ==
    Cardinality({i \in 1..Len(Slice(fc, 7)) : fc[i].rainfall_mm >= 1})

next_72h_rain(fc) == SumField(Slice(fc, 3), "rainfall_mm")

rainy_days_ahead(fc) ==
    Cardinality({i \in 1..Len(Slice(fc, 7)) : fc[i].rainfall_mm > 1})

analyze_weather_conditions(fc) ==
    IF fc = <<>> THEN EmptyDict
    ELSE [next_24h_rain |-> fc[1].rainfall_mm,
          next_72h_rain |-> next_72h_rain(fc),
          avg_humidity |-> Frac(SumField(Slice(fc, 3), "humidity"), 3),
          avg_temp |-> Frac(SumField(Slice(fc, 3), "temp_max"), 3),
          rainy_days_ahead |-> rainy_days_ahead(fc)]

(***************************************************************************)
(* check_weather_trigger                                                   *)
(***************************************************************************)
\* Variants of the comparisons, as a slip in the code would leave them.
rainfall_24h_fires_ge(conditions, analysis) ==
    /\ "rainfall_24h" \in DOMAIN conditions
    /\ Get(analysis, "next_24h_rain", 0) >= conditions["rainfall_24h"]

humidity_fires_and(conditions, analysis) ==
    /\ "humidity" \in DOMAIN conditions
    /\ FracGt(Get(analysis, "avg_humidity", Frac(0, 1)), conditions["humidity"])
    /\ "rainfall_24h" \in DOMAIN conditions =>
           Get(analysis, "next_24h_rain", 0) > conditions["rainfall_24h"]

\* An elif chain: humidity is looked at only when rainfall_24h did not fire.
humidity_fires_elif(conditions, analysis) ==
    /\ ~( /\ "rainfall_24h" \in DOMAIN conditions
          /\ Get(analysis, "next_24h_rain", 0) > conditions["rainfall_24h"] )
    /\ "humidity" \in DOMAIN conditions
    /\ FracGt(Get(analysis, "avg_humidity", Frac(0, 1)), conditions["humidity"])

rainfall_forecast_fires_gt(conditions, analysis) ==
    /\ "rainfall_forecast" \in DOMAIN conditions
    /\ Get(analysis, "rainy_days_ahead", 0) > 3

rainfall_24h_fires(conditions, analysis) ==
    /\ "rainfall_24h" \in DOMAIN conditions
    /\ Get(analysis, "next_24h_rain", 0) > conditions["rainfall_24h"]

rainfall_72h_fires(conditions, analysis) ==
    /\ "rainfall_72h" \in DOMAIN conditions
    /\ Get(analysis, "next_72h_rain", 0) > conditions["rainfall_72h"]

humidity_fires(conditions, analysis) ==
    /\ "humidity" \in DOMAIN conditions
    /\ FracGt(Get(analysis, "avg_humidity", Frac(0, 1)), conditions["humidity"])

rainfall_forecast_fires(conditions, analysis) ==
    /\ "rainfall_forecast" \in DOMAIN conditions
    /\ Get(analysis, "rainy_days_ahead", 0) >= 3

\* The summary keys the f-strings of the fired branches index directly.
FormattedKeys(conditions, analysis) ==
    (IF rainfall_24h_fires(conditions, analysis) THEN {"next_24h_rain"} ELSE {})
    \cup (IF rainfall_72h_fires(conditions, analysis) THEN {"next_72h_rain"} ELSE {})
    \cup (IF humidity_fires(conditions, analysis) THEN {"avg_humidity"} ELSE {})

rainfall_24h_trigger(conditions, analysis) ==
    IF rainfall_24h_fires(conditions, analysis)
    THEN <<[text |-> "Heavy rain expected: {}mm in 24h",
            value |-> Format1f(analysis["next_24h_rain"])]>>
    ELSE <<>>

rainfall_72h_trigger(conditions, analysis) ==
    IF rainfall_72h_fires(conditions, analysis)
    THEN <<[text |-> "Total rain forecast: {}mm in 3 days",
            value |-> Format1f(analysis["next_72h_rain"])]>>
    ELSE <<>>

humidity_trigger(conditions, analysis) ==
    IF humidity_fires(conditions, analysis)
    THEN <<[text |-> "High humidity: {}%",
            value |-> Format0f(analysis["avg_humidity"])]>>
    ELSE <<>>

rainfall_forecast_trigger(conditions, analysis) ==
    IF rainfall_forecast_fires(conditions, analysis)
    THEN <<[text |-> "Adequate rainfall expected", value |-> NoValue]>>
    ELSE <<>>

\* A variant with a branch for the 'temperature' key of the maize/gulu rule.
trigger_list_temperature(conditions, analysis) ==
    rainfall_24h_trigger(conditions, analysis)
    \o rainfall_72h_trigger(conditions, analysis)
    \o humidity_trigger(conditions, analysis)
    \o rainfall_forecast_trigger(conditions, analysis)
    \o (IF /\ "temperature" \in DOMAIN conditions
           /\ FracGt(Get(analysis, "avg_temp", Frac(0, 1)), conditions["temperature"])
        THEN <<[text |-> "High temperature", value |-> NoValue]>>
        ELSE <<>>)

trigger_list(conditions, analysis) ==
    rainfall_24h_trigger(conditions, analysis)
    \o rainfall_72h_trigger(conditions, analysis)
    \o humidity_trigger(conditions, analysis)
    \o rainfall_forecast_trigger(conditions, analysis)

check_weather_trigger(conditions, analysis) ==
    IF ~(FormattedKeys(conditions, analysis) \subseteq DOMAIN analysis)
    THEN [raised |-> TRUE, triggers |-> <<>>]
    ELSE [raised |-> FALSE, triggers |-> trigger_list(conditions, analysis)]

(***************************************************************************)
(* get_alert_severity                                                      *)
(***************************************************************************)
severity_map ==
    [critical |-> [icon |-> "red_circle", level |-> "CRITICAL", color |-> "red"],
     high |-> [icon |-> "yellow_circle", level |-> "HIGH", color |-> "orange"],
     medium |-> [icon |-> "green_circle", level |-> "ADVISORY", color |-> "green"],
     low |-> [icon |-> "blue_circle", level |-> "INFO", color |-> "blue"]]

get_alert_severity_medium(priority) ==
    Get(severity_map, priority, severity_map["medium"])

get_alert_severity(priority) == Get(severity_map, priority, severity_map["low"])

(***************************************************************************)
(* check_alerts                                                            *)
(***************************************************************************)
rule_skipped_no_wildcard(rule, d, c) ==
    \/ rule.district # lower(d)
    \/ rule.crop # c

rule_skipped_no_lower(rule, d, c) ==
    \/ rule.district # s_all /\ rule.district # d
    \/ rule.crop # c

\* A variant without the district filter.
rule_skipped_crop_only(rule, d, c) == rule.crop # c

rule_skipped(rule, d, c) ==
    \/ rule.district # s_all /\ rule.district # lower(d)
    \/ rule.crop # c

in_window_exclusive_end(rule, current_date_str) ==
    StrLe(rule.start_date, current_date_str) /\ StrLess(current_date_str, rule.end_date)

\* A window test that wraps around the end of the year.
in_window_wraparound(rule, current_date_str) ==
    IF StrLe(rule.start_date, rule.end_date)
    THEN StrLe(rule.start_date, current_date_str) /\ StrLe(current_date_str, rule.end_date)
    ELSE StrLe(rule.start_date, current_date_str) \/ StrLe(current_date_str, rule.end_date)

in_window(rule, current_date_str) ==
    StrLe(rule.start_date, current_date_str) /\ StrLe(current_date_str, rule.end_date)

RECURSIVE check_alerts_loop(_, _, _, _, _, _)
check_alerts_loop(i, acc, d, c, current_date_str, analysis) ==
    IF i > Len(ALERT_RULES) THEN [raised |-> FALSE, alerts |-> acc]
    ELSE LET rule == ALERT_RULES[i]
             weather_triggered ==
                 check_weather_trigger(rule.weather_conditions, analysis)
         IN IF rule_skipped(rule, d, c) \/ ~in_window(rule, current_date_str)
            THEN check_alerts_loop(i + 1, acc, d, c, current_date_str, analysis)
            ELSE IF weather_triggered.raised
            THEN [raised |-> TRUE, alerts |-> <<>>]
            ELSE IF weather_triggered.triggers # <<>>
            THEN check_alerts_loop(i + 1,
                     Append(acc, [rule |-> rule,
                                  severity |-> get_alert_severity(rule.priority),
                                  weather_context |-> weather_triggered.triggers]),
                     d, c, current_date_str, analysis)
            ELSE check_alerts_loop(i + 1, acc, d, c, current_date_str, analysis)

\* A variant that puts each new alert in front (active_alerts.insert(0, ...)).
check_alerts_newest_first(d, c, date, analysis) ==
    LET result == check_alerts_loop(1, <<>>, d, c, strftime(date), analysis)
    IN [raised |-> result.raised,
        alerts |-> [i \in 1..Len(result.alerts) |->
                       result.alerts[Len(result.alerts) + 1 - i]]]

check_alerts(d, c, date, analysis) ==
    check_alerts_loop(1, <<>>, d, c, strftime(date), analysis)

(***************************************************************************)
(* The engine functions of app2.py, reading the same ALERT_RULES           *)
(***************************************************************************)
analyze_weather_conditions2(fc) ==
    IF fc = <<>> THEN EmptyDict
    ELSE [next_24h_rain |-> fc[1].rainfall_mm,
          next_72h_rain |-> SumField(Slice(fc, 3), "rainfall_mm"),
          avg_humidity |-> Frac(SumField(Slice(fc, 3), "humidity"), 3),
          avg_temp |-> Frac(SumField(Slice(fc, 3), "temp_max"), 3),
          rainy_days_ahead |->
              Cardinality({i \in 1..Len(Slice(fc, 7)) : fc[i].rainfall_mm > 1})]

check_weather_trigger2(conditions, analysis) ==
    LET rain24 == /\ "rainfall_24h" \in DOMAIN conditions
                  /\ Get(analysis, "next_24h_rain", 0) > conditions["rainfall_24h"]
        rain72 == /\ "rainfall_72h" \in DOMAIN conditions
                  /\ Get(analysis, "next_72h_rain", 0) > conditions["rainfall_72h"]
        humid == /\ "humidity" \in DOMAIN conditions
                 /\ FracGt(Get(analysis, "avg_humidity", Frac(0, 1)),
                           conditions["humidity"])
        adequate == /\ "rainfall_forecast" \in DOMAIN conditions
                    /\ Get(analysis, "rainy_days_ahead", 0) >= 3
    IN IF \/ rain24 /\ "next_24h_rain" \notin DOMAIN analysis
          \/ rain72 /\ "next_72h_rain" \notin DOMAIN analysis
          \/ humid /\ "avg_humidity" \notin DOMAIN analysis
       THEN [raised |-> TRUE, triggers |-> <<>>]
       ELSE [raised |-> FALSE,
             triggers |->
                 (IF rain24
                  THEN <<[text |-> "Heavy rain expected: {}mm in 24h",
                          value |-> Format1f(analysis["next_24h_rain"])]>>
                  ELSE <<>>)
                 \o (IF rain72
                     THEN <<[text |-> "Total rain forecast: {}mm in 3 days",
                             value |-> Format1f(analysis["next_72h_rain"])]>>
                     ELSE <<>>)
                 \o (IF humid
                     THEN <<[text |-> "High humidity: {}%",
                             value |-> Format0f(analysis["avg_humidity"])]>>
                     ELSE <<>>)
                 \o (IF adequate
                     THEN <<[text |-> "Adequate rainfall expected", value |-> NoValue]>>
                     ELSE <<>>)]

get_alert_severity2(priority) ==
    IF priority \in {"critical", "high", "medium", "low"}
    THEN severity_map[priority]
    ELSE severity_map["low"]

RECURSIVE check_alerts_loop2(_, _, _, _, _, _)
check_alerts_loop2(i, acc, d, c, current_date_str, analysis) ==
    IF i > Len(ALERT_RULES) THEN [raised |-> FALSE, alerts |-> acc]
    ELSE LET rule == ALERT_RULES[i]
             weather_triggered ==
                 check_weather_trigger2(rule.weather_conditions, analysis)
         IN IF rule.district # s_all /\ rule.district # lower(d)
            THEN check_alerts_loop2(i + 1, acc, d, c, current_date_str, analysis)
            ELSE IF rule.crop # c
            THEN check_alerts_loop2(i + 1, acc, d, c, current_date_str, analysis)
            ELSE IF ~( /\ StrLe(rule.start_date, current_date_str)
                       /\ StrLe(current_date_str, rule.end_date) )
            THEN check_alerts_loop2(i + 1, acc, d, c, current_date_str, analysis)
            ELSE IF weather_triggered.raised
            THEN [raised |-> TRUE, alerts |-> <<>>]
            ELSE IF weather_triggered.triggers = <<>>
            THEN check_alerts_loop2(i + 1, acc, d, c, current_date_str, analysis)
            ELSE check_alerts_loop2(i + 1,
                     Append(acc, [rule |-> rule,
                                  severity |-> get_alert_severity2(rule.priority),
                                  weather_context |-> weather_triggered.triggers]),
                     d, c, current_date_str, analysis)

check_alerts2(d, c, date, analysis) ==
    check_alerts_loop2(1, <<>>, d, c, strftime(date), analysis)

(***************************************************************************)
(* Inputs.  A forecast day carries the fields the provider returns that    *)
(* the engine reads or that main sums (the display-only 'date' is left     *)
(* out).  Three families of calls are explored: every short forecast       *)
(* against the shipped catalogs, the crop/district/date filters against    *)
(* one-rule catalogs, and the condition keys, thresholds and priorities    *)
(* against one-rule catalogs.                                              *)
(***************************************************************************)
Day(r, h, t) == [rainfall_mm |-> r, temp_max |-> t, temp_min |-> t - 8, humidity |-> h]

Date(m, d) == [month |-> m, day |-> d]

Call(rules, fc, d, c, date) ==
    [rules |-> rules, forecast |-> fc, district |-> d, crop |-> c, date |-> date]

SeqsUpTo(S, n) == UNION {[1..k -> S] : k \in 0..n}

ShortDays == {Day(r, h, 26) : r \in {0, 1, 2}, h \in {0, 90}}

f_empty == <<>>
f_scenario1 == <<Day(35, 90, 26), Day(5, 90, 27), Day(2, 90, 25)>>
f_dry == <<Day(0, 50, 30), Day(0, 50, 30), Day(0, 50, 30)>>
f_equal == <<Day(30, 85, 26), Day(0, 85, 26), Day(0, 85, 26)>>
f_above == <<Day(31, 86, 26), Day(0, 85, 26), Day(0, 85, 26)>>
f_rain_only == <<Day(35, 50, 26), Day(0, 50, 26), Day(0, 50, 26)>>
f_humid_only == <<Day(3, 90, 26), Day(0, 90, 26), Day(0, 90, 26)>>
f_72h_equal == <<Day(10, 70, 26), Day(10, 70, 26), Day(0, 70, 26), Day(9, 70, 26)>>
f_72h_above == <<Day(10, 70, 26), Day(10, 71, 26), Day(5, 70, 26)>>
f_one_day == <<Day(35, 90, 26)>>
f_two_rainy == <<Day(0, 60, 26), Day(2, 60, 26), Day(1, 60, 26), Day(2, 60, 26), Day(1, 60, 26)>>
f_three_rainy == <<Day(0, 60, 26), Day(2, 60, 26), Day(1, 60, 26), Day(2, 60, 26), Day(4, 60, 26)>>

FilterForecasts == {f_empty, f_scenario1, f_dry}

ConditionForecasts ==
    {f_empty, f_scenario1, f_dry, f_equal, f_above, f_rain_only, f_humid_only,
     f_72h_equal, f_72h_above, f_one_day, f_two_rainy, f_three_rainy}

DistrictArgs == {s_Wakiso, s_wakiso, s_WAKISO, s_Gulu, s_Kabale}

CropArgs == {s_maize, s_Maize, s_beans, s_groundnuts}

DateArgs ==
    {Date(4, 14), Date(4, 15), Date(5, 15), Date(5, 16), Date(6, 1), Date(6, 20),
     Date(12, 15), Date(12, 20), Date(1, 5)}

Windows ==
    {<<d_04_15, d_05_15>>, <<d_06_15, d_07_15>>, <<d_12_15, d_01_15>>}

FilterRules ==
    {Rule(c, d, "stage", w[1], w[2], [rainfall_24h |-> 30, humidity |-> 85],
          "delay", "high", "filter rule") :
        c \in {s_maize, s_beans}, d \in {s_all, s_wakiso, s_gulu}, w \in Windows}

ConditionSets ==
    {[rainfall_24h |-> 30, humidity |-> 85],
     [rainfall_72h |-> 20],
     [rainfall_forecast |-> "adequate"],
     [rainfall_forecast |-> "none"],
     [temperature |-> 25, humidity |-> 70],
     [temperature |-> 25],
     [rainfall_24h |-> 30, temperature |-> 25],
     [rainfall_24h |-> 30],
     [rainfall_24h |-> 0 - 1],
     [rainfall_24h |-> 0],
     [rainfall_24h |-> 30, rainfall_72h |-> 20],
     [rainfall_24h |-> 30, rainfall_72h |-> 20, humidity |-> 85,
      rainfall_forecast |-> "adequate"]}

Priorities == {"critical", "high", "medium", "low", "unknown_value", "HIGH"}

ConditionRules ==
    {Rule(s_maize, s_wakiso, "stage", d_04_15, d_05_15, wc, "delay", p,
          "condition rule") :
        wc \in ConditionSets, p \in Priorities}

\* Forecasts longer than the 3-day and 7-day slices, of light (1 mm) and
\* rainy (2 mm) days.
LongDays == {Day(1, 60, 26), Day(2, 60, 26)}

LongForecasts == UNION {[1..k -> LongDays] : k \in 1..MaxLongLen}

\* Rules for the same crop and district that fire together, listed with
\* priorities and start dates in no particular order.
order_rule_low ==
    Rule(s_maize, s_wakiso, "stage", d_04_15, d_05_15, [rainfall_24h |-> 30],
         "delay", "low", "order rule low")

order_rule_critical ==
    Rule(s_maize, s_wakiso, "stage", d_04_01, d_05_30, [humidity |-> 85],
         "urgent", "critical", "order rule critical")

order_rule_medium ==
    Rule(s_maize, s_all, "stage", d_04_01, d_05_15,
         [rainfall_forecast |-> "adequate"], "timing", "medium", "order rule medium")

order_rule_high ==
    Rule(s_maize, s_wakiso, "stage", d_04_15, d_05_30, [rainfall_72h |-> 40],
         "delay", "high", "order rule high")

OrderRules == {order_rule_low, order_rule_critical, order_rule_medium, order_rule_high}

IsInjective(q) == \A i, j \in DOMAIN q : q[i] = q[j] => i = j

OrderCatalogs ==
    {q \in UNION {[1..k -> OrderRules] : k \in 2..MaxRules} : IsInjective(q)}

Inputs ==
    {Call(APP_ALERT_RULES, fc, s_Gulu, s_maize, Date(5, 1)) : fc \in LongForecasts}
    \cup
    {Call(rules, fc, s_Wakiso, s_maize, Date(5, 1)) :
        rules \in OrderCatalogs, fc \in {f_scenario1, f_rain_only, f_dry}}
    \cup
    {Call(rules, fc, d, c, Date(5, 1)) :
        rules \in {APP_ALERT_RULES, APP2_ALERT_RULES},
        fc \in SeqsUpTo(ShortDays, MaxLen),
        d \in {s_Wakiso, s_Gulu}, c \in {s_maize, s_groundnuts}}
    \cup
    {Call(rules, fc, d, c, date) :
        rules \in {<<r>> : r \in FilterRules} \cup {APP_ALERT_RULES, APP2_ALERT_RULES},
        fc \in FilterForecasts, d \in DistrictArgs, c \in CropArgs, date \in DateArgs}
    \cup
    {Call(<<r>>, fc, s_Wakiso, s_maize, Date(5, 1)) :
        r \in ConditionRules, fc \in ConditionForecasts}

(***************************************************************************)
(* The engine as called for one request                                    *)
(***************************************************************************)
Init ==
    \E inp \in Inputs :
        /\ ALERT_RULES = inp.rules
        /\ forecast = inp.forecast
        /\ district = inp.district
        /\ crop = inp.crop
        /\ current_date = inp.date
        /\ weather_analysis = EmptyDict
        /\ active_alerts = <<>>
        /\ pc = "start"
        /\ response = NoResponse
        /\ screen = <<>>
        /\ sessions = <<>>

AnalyzeWeatherConditions ==
    /\ pc = "start"
    /\ weather_analysis' = analyze_weather_conditions(forecast)
    /\ pc' = "analyzed"
    /\ UNCHANGED <<ALERT_RULES, forecast, district, crop, current_date, active_alerts,
                   response, screen, sessions>>

CheckAlerts ==
    /\ pc = "analyzed"
    /\ LET result == check_alerts(district, crop, current_date, weather_analysis)
       IN /\ active_alerts' = result.alerts
          /\ pc' = IF result.raised THEN "raised" ELSE "done"
    /\ UNCHANGED <<ALERT_RULES, forecast, district, crop, current_date, weather_analysis,
                   response, screen, sessions>>

Next == AnalyzeWeatherConditions \/ CheckAlerts

Spec == Init /\ [][Next]_vars

(***************************************************************************)
(* DISTRICTS of the two variants: coordinates in 1/10000 degree and the    *)
(* crops the sidebar offers for the district                               *)
(***************************************************************************)
District(lat, lon, crops) == [lat |-> lat, lon |-> lon, main_crops |-> crops]

DISTRICTS ==
    (s_Wakiso :> District(4040, 324590, <<s_maize, s_beans, s_groundnuts>>))
    @@ (s_Gulu :> District(27796, 322997, <<s_maize, s_beans, s_sorghum>>))
    @@ (s_Kabale :> District(0 - 12411, 299914,
                             <<s_beans, s_irish_potato, s_climbing_beans>>))

DISTRICTS2 ==
    DISTRICTS
    @@ (s_Soroti :> District(17111, 336111, <<s_maize, s_groundnuts, s_rice>>))
    @@ (s_Mbarara :> District(0 - 6063, 306474, <<s_maize, s_beans, s_bananas>>))

(***************************************************************************)
(* get_weather_forecast.  The provider's answer is a transport failure, an *)
(* HTTP error status, a body that is not JSON, a JSON body without         *)
(* 'daily', a 'daily' whose arrays are shorter than 'time', or a 'daily'   *)
(* of whole days.  A JSON null is <<>> and a number v is <<v>>;            *)
(* temperatures are taken as present.                                      *)
(***************************************************************************)
OrZero(x) == IF x = <<>> THEN 0 ELSE IF x[1] = 0 THEN 0 ELSE x[1]

\* A variant that lets the failure out instead of returning [].
get_weather_forecast_reraise(resp) ==
    IF resp.kind # "ok"
    THEN [raised |-> TRUE, error |-> FALSE, forecast |-> <<>>]
    ELSE [raised |-> FALSE, error |-> FALSE,
          forecast |->
              [i \in 1..Len(resp.daily) |->
                  [rainfall_mm |-> OrZero(resp.daily[i].precipitation_sum),
                   temp_max |-> resp.daily[i].temperature_2m_max,
                   temp_min |-> resp.daily[i].temperature_2m_min,
                   humidity |-> OrZero(resp.daily[i].relative_humidity_2m_mean)]]]

get_weather_forecast(resp) ==
    IF resp.kind # "ok"
    THEN [raised |-> FALSE, error |-> TRUE, forecast |-> <<>>]
    ELSE [raised |-> FALSE, error |-> FALSE,
          forecast |->
              [i \in 1..Len(resp.daily) |->
                  [rainfall_mm |-> OrZero(resp.daily[i].precipitation_sum),
                   temp_max |-> resp.daily[i].temperature_2m_max,
                   temp_min |-> resp.daily[i].temperature_2m_min,
                   humidity |-> OrZero(resp.daily[i].relative_humidity_2m_mean)]]]

(***************************************************************************)
(* main: one run of the script for the selected district and crop          *)
(***************************************************************************)
Widget(w, t) == [widget |-> w, text |-> t]

forecast_truthy_always(fc) == TRUE

forecast_truthy(fc) == fc # <<>>

RawDaily(fc) ==
    [i \in 1..Len(fc) |->
        [precipitation_sum |-> <<fc[i].rainfall_mm>>,
         temperature_2m_max |-> fc[i].temp_max,
         temperature_2m_min |-> fc[i].temp_min,
         relative_humidity_2m_mean |-> <<fc[i].humidity>>]]

daily_with_nulls ==
    <<[precipitation_sum |-> <<>>, temperature_2m_max |-> 26,
       temperature_2m_min |-> 18, relative_humidity_2m_mean |-> <<>>],
      [precipitation_sum |-> <<40>>, temperature_2m_max |-> 26,
       temperature_2m_min |-> 18, relative_humidity_2m_mean |-> <<88>>]>>

FailedResponses ==
    {[kind |-> k, daily |-> <<>>] :
        k \in {"timeout", "http_error", "not_json", "no_daily", "short_arrays"}}

OkResponses ==
    {[kind |-> "ok", daily |-> RawDaily(fc)] :
        fc \in {f_empty, f_scenario1, f_dry, f_humid_only, f_three_rainy, f_one_day}}
    \cup {[kind |-> "ok", daily |-> daily_with_nulls]}

MainDates == DateArgs \cup {Date(5, 1)}

Selections(districts) ==
    {<<d, districts[d].main_crops[i]>> :
        d \in DOMAIN districts, i \in 1..3}

MainInit ==
    \E variant \in {<<APP_ALERT_RULES, DISTRICTS>>, <<APP2_ALERT_RULES, DISTRICTS2>>} :
        \E sel \in Selections(variant[2]), date \in MainDates :
            /\ ALERT_RULES = variant[1]
            /\ district = sel[1]
            /\ crop = sel[2]
            /\ current_date = date
            /\ forecast = <<>>
            /\ weather_analysis = EmptyDict
            /\ active_alerts = <<>>
            /\ pc = "main"
            /\ response = NoResponse
            /\ screen = <<>>
            /\ sessions = <<>>

GetWeatherForecast ==
    /\ pc = "main"
    /\ \E resp \in FailedResponses \cup OkResponses :
           LET result == get_weather_forecast(resp)
           IN /\ response' = resp
              /\ forecast' = result.forecast
              /\ screen' = IF result.error
                           THEN <<Widget("error", "Unable to fetch weather data")>>
                           ELSE <<>>
              /\ pc' = IF result.raised THEN "raised"
                       ELSE IF forecast_truthy(result.forecast) THEN "start"
                       ELSE "no_data"
    /\ UNCHANGED <<ALERT_RULES, district, crop, current_date, weather_analysis,
                   active_alerts, sessions>>

ShowAlerts ==
    /\ pc = "done"
    /\ screen' = screen
                 \o (IF active_alerts # <<>>
                     THEN [i \in 1..Len(active_alerts) |->
                              Widget("expander", active_alerts[i].rule.title)]
                     ELSE <<Widget("success", "No critical alerts at this time")>>)
                 \o <<Widget("dataframe", "7-Day Weather Forecast")>>
    /\ pc' = "rendered"
    /\ UNCHANGED <<ALERT_RULES, forecast, district, crop, current_date, weather_analysis,
                   active_alerts, response, sessions>>

ShowNoData ==
    /\ pc = "no_data"
    /\ screen' = Append(screen, Widget("error", "Unable to load weather data"))
    /\ pc' = "rendered"
    /\ UNCHANGED <<ALERT_RULES, forecast, district, crop, current_date, weather_analysis,
                   active_alerts, response, sessions>>

MainNext ==
    \/ GetWeatherForecast
    \/ AnalyzeWeatherConditions
    \/ CheckAlerts
    \/ ShowAlerts
    \/ ShowNoData

MainSpec == MainInit /\ [][MainNext]_vars

(***************************************************************************)
(* Concurrent sessions.  Each session runs analyze_weather_conditions and  *)
(* then check_alerts, one iteration of the loop over ALERT_RULES per step, *)
(* on its own arguments and locals; ALERT_RULES is the only object the     *)
(* sessions have in common.                                                *)
(***************************************************************************)
Session(d, c, date, fc) ==
    [district |-> d, crop |-> c, current_date |-> date, forecast |-> fc,
     weather_analysis |-> EmptyDict, active_alerts |-> <<>>, rule_index |-> 0,
     pc |-> "start"]

SessionCalls ==
    {Session(s_Wakiso, s_maize, Date(5, 1), f_scenario1),
     Session(s_Gulu, s_maize, Date(5, 1), f_humid_only),
     Session(s_Kabale, s_beans, Date(6, 20), f_scenario1),
     Session(s_Wakiso, s_groundnuts, Date(5, 1), f_empty)}

SessionCatalogs ==
    {APP_ALERT_RULES, APP2_ALERT_RULES,
     <<order_rule_low, order_rule_critical, order_rule_medium>>}

\* A variant in which active_alerts is one module-level list.
append_alert_shared(ss, k, alert) ==
    [j \in DOMAIN ss |-> [ss[j] EXCEPT !.active_alerts = Append(@, alert)]]

append_alert(ss, k, alert) ==
    [ss EXCEPT ![k].active_alerts = Append(@, alert)]

ConcInit ==
    /\ ALERT_RULES \in SessionCatalogs
    /\ sessions \in [1..MaxSessions -> SessionCalls]
    /\ forecast = <<>>
    /\ district = s_Wakiso
    /\ crop = s_maize
    /\ current_date = Date(5, 1)
    /\ weather_analysis = EmptyDict
    /\ active_alerts = <<>>
    /\ pc = "sessions"
    /\ response = NoResponse
    /\ screen = <<>>

SessionAnalyze(k) ==
    /\ sessions[k].pc = "start"
    /\ sessions' = [sessions EXCEPT
           ![k].weather_analysis = analyze_weather_conditions(sessions[k].forecast),
           ![k].rule_index = 1,
           ![k].pc = "loop"]
    /\ UNCHANGED <<ALERT_RULES, forecast, district, crop, current_date, weather_analysis,
                   active_alerts, pc, response, screen>>

SessionCheckRule(k) ==
    /\ sessions[k].pc = "loop"
    /\ sessions[k].rule_index <= Len(ALERT_RULES)
    /\ LET me == sessions[k]
           rule == ALERT_RULES[me.rule_index]
           weather_triggered ==
               check_weather_trigger(rule.weather_conditions, me.weather_analysis)
           advanced == [sessions EXCEPT ![k].rule_index = @ + 1]
       IN sessions' =
              IF \/ rule_skipped(rule, me.district, me.crop)
                 \/ ~in_window(rule, strftime(me.current_date))
              THEN advanced
              ELSE IF weather_triggered.raised
              THEN [sessions EXCEPT ![k].pc = "raised", ![k].active_alerts = <<>>]
              ELSE IF weather_triggered.triggers # <<>>
              THEN append_alert(advanced, k,
                       [rule |-> rule,
                        severity |-> get_alert_severity(rule.priority),
                        weather_context |-> weather_triggered.triggers])
              ELSE advanced
    /\ UNCHANGED <<ALERT_RULES, forecast, district, crop, current_date, weather_analysis,
                   active_alerts, pc, response, screen>>

SessionReturn(k) ==
    /\ sessions[k].pc = "loop"
    /\ sessions[k].rule_index > Len(ALERT_RULES)
    /\ sessions' = [sessions EXCEPT ![k].pc = "done"]
    /\ UNCHANGED <<ALERT_RULES, forecast, district, crop, current_date, weather_analysis,
                   active_alerts, pc, response, screen>>

ConcNext ==
    \E k \in DOMAIN sessions :
        \/ SessionAnalyze(k)
        \/ SessionCheckRule(k)
        \/ SessionReturn(k)

ConcSpec == ConcInit /\ [][ConcNext]_vars

(***************************************************************************)
(* Vocabulary of the properties.  These definitions state what the         *)
(* specification expects, with arithmetic on months and days and explicit  *)
(* tables, and are not used by the model of the code above.                *)
(***************************************************************************)
Returned == pc = "done"

Vocabulary == {"rainfall_24h", "rainfall_72h", "humidity", "rainfall_forecast"}

Rain24 == IF "next_24h_rain" \in DOMAIN weather_analysis
          THEN weather_analysis.next_24h_rain ELSE 0

Rain72 == IF "next_72h_rain" \in DOMAIN weather_analysis
          THEN weather_analysis.next_72h_rain ELSE 0

RainyDays == IF "rainy_days_ahead" \in DOMAIN weather_analysis
             THEN weather_analysis.rainy_days_ahead ELSE 0

HumidityAbove(t) ==
    IF "avg_humidity" \in DOMAIN weather_analysis
    THEN weather_analysis.avg_humidity.num > t * weather_analysis.avg_humidity.den
    ELSE 0 > t

HumidityEquals(t) ==
    /\ "avg_humidity" \in DOMAIN weather_analysis
    /\ weather_analysis.avg_humidity.num = t * weather_analysis.avg_humidity.den

Satisfied(k, wc) ==
    CASE k = "rainfall_24h" -> Rain24 > wc[k]
      [] k = "rainfall_72h" -> Rain72 > wc[k]
      [] k = "humidity" -> HumidityAbove(wc[k])
      [] k = "rainfall_forecast" -> RainyDays >= 3
      [] OTHER -> FALSE

SatisfiedKeys(wc) == {k \in DOMAIN wc : Satisfied(k, wc)}

Digit(c) == c - 48

MonthDayOf(s) == (10 * Digit(s[1]) + Digit(s[2])) * 100 + 10 * Digit(s[4]) + Digit(s[5])

Today == current_date.month * 100 + current_date.day

InsideWindow(rule) ==
    MonthDayOf(rule.start_date) <= Today /\ Today <= MonthDayOf(rule.end_date)

FoldCase(c) == IF c >= 97 /\ c <= 122 THEN c - 32 ELSE c

SameIgnoringCase(a, b) ==
    Len(a) = Len(b) /\ \A i \in 1..Len(a) : FoldCase(a[i]) = FoldCase(b[i])

DistrictMatches(rule) ==
    rule.district = s_all \/ SameIgnoringCase(rule.district, district)

PassesChecks(rule) ==
    rule.crop = crop /\ DistrictMatches(rule) /\ InsideWindow(rule)

CatalogRules == {ALERT_RULES[j] : j \in DOMAIN ALERT_RULES}

AlertsFor(rule) == {i \in DOMAIN active_alerts : active_alerts[i].rule = rule}

Fired(rule) == AlertsFor(rule) # {}

TextsOf(triggers) == {triggers[i].text : i \in DOMAIN triggers}

TriggerTexts(rule) ==
    UNION {TextsOf(active_alerts[i].weather_context) : i \in AlertsFor(rule)}

KnownConditions(wc) == [k \in DOMAIN wc \cap Vocabulary |-> wc[k]]

FiredIn(alerts, rule) == \E i \in DOMAIN alerts : alerts[i].rule = rule

ExpectedSeverity(priority) ==
    CASE priority = "critical" -> [icon |-> "red_circle", level |-> "CRITICAL", color |-> "red"]
      [] priority = "high" -> [icon |-> "yellow_circle", level |-> "HIGH", color |-> "orange"]
      [] priority = "medium" -> [icon |-> "green_circle", level |-> "ADVISORY", color |-> "green"]
      [] OTHER -> [icon |-> "blue_circle", level |-> "INFO", color |-> "blue"]

(***************************************************************************)
(* Properties                                                              *)
(***************************************************************************)

\* C1: for a forecast of one or two days the humidity and temperature
\* averages of the summary are the sums over the available days divided by
\* the number of available days (one day of humidity 90 averages to 90).
C1_ShortForecastAveragesAvailableDays ==
    (pc # "start" /\ Len(forecast) \in {1, 2}) =>
        /\ weather_analysis.avg_humidity.num * Len(forecast)
               = SumField(forecast, "humidity") * weather_analysis.avg_humidity.den
        /\ weather_analysis.avg_temp.num * Len(forecast)
               = SumField(forecast, "temp_max") * weather_analysis.avg_temp.den

\* C2: for the empty forecast the summary is empty, and check_alerts on it
\* returns no alert and does not raise, whatever the catalog's thresholds.
C2_EmptyForecastNoAlertsNoRaise ==
    (Len(forecast) = 0 /\ pc # "start") =>
        /\ DOMAIN weather_analysis = {}
        /\ pc # "raised"
        /\ active_alerts = <<>>

\* C3: conditions of a rule are OR-combined: a rule passing the crop,
\* district and date checks fires iff at least one of its conditions is
\* satisfied, and a two-condition rule with exactly one satisfied condition
\* fires with exactly one explanation string.
C3_ConditionsOrCombined ==
    Returned =>
        \A rule \in CatalogRules :
            PassesChecks(rule) =>
                /\ Fired(rule) <=> SatisfiedKeys(rule.weather_conditions) # {}
                /\ ( /\ Cardinality(DOMAIN rule.weather_conditions) = 2
                     /\ Cardinality(SatisfiedKeys(rule.weather_conditions)) = 1 )
                   => /\ Fired(rule)
                      /\ \A i \in AlertsFor(rule) :
                             Len(active_alerts[i].weather_context) = 1

C3_Witness ==
    /\ Returned
    /\ \E i \in DOMAIN active_alerts :
           LET wc == active_alerts[i].rule.weather_conditions
           IN /\ DOMAIN wc = {"rainfall_24h", "humidity"}
              /\ SatisfiedKeys(wc) = {"humidity"}
              /\ Len(active_alerts[i].weather_context) = 1

\* C4: a rule fires only when the MM-DD of the current date lies in
\* [start_date, end_date], both ends included; outside the window no alert
\* is emitted for the rule whatever the summary, and on either end a rule
\* that matches and has a satisfied condition does fire.
C4_WindowInclusive ==
    Returned =>
        \A rule \in CatalogRules :
            /\ Fired(rule) => InsideWindow(rule)
            /\ ( /\ rule.crop = crop
                 /\ DistrictMatches(rule)
                 /\ SatisfiedKeys(rule.weather_conditions) # {}
                 /\ MonthDayOf(rule.start_date) <= MonthDayOf(rule.end_date)
                 /\ Today \in {MonthDayOf(rule.start_date), MonthDayOf(rule.end_date)} )
               => Fired(rule)

C4_Witness ==
    /\ Returned
    /\ \E i \in DOMAIN active_alerts :
           Today = MonthDayOf(active_alerts[i].rule.end_date)
    /\ \E rule \in CatalogRules :
           /\ rule.crop = crop
           /\ DistrictMatches(rule)
           /\ SatisfiedKeys(rule.weather_conditions) # {}

\* C5: a rule whose district is "all" passes the district filter for every
\* district identifier: for the same crop, date and summary it fires for
\* every district or for none.
C5_WildcardDistrict ==
    Returned =>
        \A rule \in CatalogRules :
            rule.district = s_all =>
                /\ ( /\ rule.crop = crop
                     /\ InsideWindow(rule)
                     /\ SatisfiedKeys(rule.weather_conditions) # {} )
                   => Fired(rule)
                /\ \A d \in DistrictArgs :
                       LET other == check_alerts(d, crop, current_date, weather_analysis)
                       IN ~other.raised =>
                              (FiredIn(other.alerts, rule) <=> Fired(rule))

C5_Witness ==
    /\ Returned
    /\ district = s_Kabale
    /\ \E i \in DOMAIN active_alerts : active_alerts[i].rule.district = s_all

\* C6: a rule is considered only if its crop equals the crop argument
\* exactly and its district is "all" or equals the lowercased district
\* argument: a district argument differing from the rule's district only by
\* letter case matches, a crop argument differing only by case does not.
C6_CropExactDistrictLowercased ==
    Returned =>
        \A rule \in CatalogRules :
            /\ Fired(rule) => (rule.crop = crop /\ DistrictMatches(rule))
            /\ ( /\ rule.crop = crop
                 /\ SameIgnoringCase(rule.district, district)
                 /\ InsideWindow(rule)
                 /\ SatisfiedKeys(rule.weather_conditions) # {} )
               => Fired(rule)
            /\ (rule.crop # crop /\ SameIgnoringCase(rule.crop, crop)) => ~Fired(rule)

C6_Witness ==
    /\ Returned
    /\ district = s_WAKISO
    /\ \E i \in DOMAIN active_alerts : active_alerts[i].rule.district = s_wakiso

\* C7: rainfall_24h, rainfall_72h and humidity compare with a strict
\* greater-than: each contributes its explanation iff the summary value
\* exceeds the threshold, and a value equal to the threshold does not fire.
C7_StrictGreaterThan ==
    Returned =>
        \A rule \in CatalogRules :
            PassesChecks(rule) =>
                LET wc == rule.weather_conditions
                IN /\ "Heavy rain expected: {}mm in 24h" \in TriggerTexts(rule)
                          <=> ("rainfall_24h" \in DOMAIN wc /\ Rain24 > wc.rainfall_24h)
                   /\ "Total rain forecast: {}mm in 3 days" \in TriggerTexts(rule)
                          <=> ("rainfall_72h" \in DOMAIN wc /\ Rain72 > wc.rainfall_72h)
                   /\ "High humidity: {}%" \in TriggerTexts(rule)
                          <=> ("humidity" \in DOMAIN wc /\ HumidityAbove(wc.humidity))

C7_Witness ==
    /\ Returned
    /\ \E rule \in CatalogRules :
           /\ PassesChecks(rule)
           /\ DOMAIN rule.weather_conditions = {"rainfall_24h", "humidity"}
           /\ Rain24 = rule.weather_conditions.rainfall_24h
           /\ HumidityEquals(rule.weather_conditions.humidity)
           /\ ~Fired(rule)

\* C8: rainfall_forecast fires iff rainy_days_ahead >= 3, whatever value is
\* stored under the key: with exactly 3 rainy days it fires, with 2 not.
C8_RainfallForecastAtLeastThree ==
    Returned =>
        \A rule \in CatalogRules :
            PassesChecks(rule) =>
                ( "Adequate rainfall expected" \in TriggerTexts(rule)
                      <=> ( /\ "rainfall_forecast" \in DOMAIN rule.weather_conditions
                            /\ RainyDays >= 3 ) )

C8_Witness ==
    /\ Returned
    /\ RainyDays = 3
    /\ \E i \in DOMAIN active_alerts :
           /\ active_alerts[i].rule.weather_conditions = [rainfall_forecast |-> "none"]
           /\ TextsOf(active_alerts[i].weather_context) = {"Adequate rainfall expected"}

\* C9: a condition key outside the vocabulary never contributes a trigger
\* and never raises: a rule with only unknown keys never fires, and an
\* unknown key changes neither whether a rule fires nor its trigger list.
C9_UnknownKeysIgnored ==
    (pc \in {"done", "raised"}) =>
        \A rule \in CatalogRules :
            LET wc == rule.weather_conditions
                full == check_weather_trigger(wc, weather_analysis)
            IN /\ full = check_weather_trigger(KnownConditions(wc), weather_analysis)
               /\ (DOMAIN wc \cap Vocabulary = {}) => (~full.raised /\ ~Fired(rule))
               /\ (Returned /\ PassesChecks(rule)) =>
                      /\ Cardinality(TriggerTexts(rule))
                             = Cardinality(SatisfiedKeys(KnownConditions(wc)))
                      /\ "High temperature" \notin TriggerTexts(rule)

C9_Witness ==
    /\ Returned
    /\ "avg_temp" \in DOMAIN weather_analysis
    /\ \E rule \in CatalogRules :
           /\ PassesChecks(rule)
           /\ DOMAIN rule.weather_conditions = {"temperature"}
           /\ weather_analysis.avg_temp.num > 25 * weather_analysis.avg_temp.den
           /\ ~Fired(rule)

\* C10: get_alert_severity is total: critical, high, medium and low map to
\* their own icon/level/color entries and every other priority resolves to
\* the low/INFO/blue entry.
C10_SeverityTotal ==
    Returned =>
        \A i \in DOMAIN active_alerts :
            active_alerts[i].severity = ExpectedSeverity(active_alerts[i].rule.priority)

C10_Witness ==
    /\ Returned
    /\ \E i \in DOMAIN active_alerts :
           /\ active_alerts[i].rule.priority = "unknown_value"
           /\ active_alerts[i].severity.level = "INFO"

\* C11: the alerts come in the relative order of their rules in
\* ALERT_RULES, each rule at most once: the result is an order-preserving
\* subsequence of the catalog, not reordered by severity or date.
PositionOf(rule) == CHOOSE j \in DOMAIN ALERT_RULES : ALERT_RULES[j] = rule

C11_CatalogOrder ==
    Returned =>
        /\ \A i \in DOMAIN active_alerts : active_alerts[i].rule \in CatalogRules
        /\ \A rule \in CatalogRules : Cardinality(AlertsFor(rule)) <= 1
        /\ \A i, j \in DOMAIN active_alerts :
               i < j => PositionOf(active_alerts[i].rule) < PositionOf(active_alerts[j].rule)

C11_Witness ==
    /\ Returned
    /\ Len(active_alerts) = 3
    /\ active_alerts[1].rule.priority = "low"
    /\ active_alerts[2].rule.priority = "critical"
    /\ MonthDayOf(active_alerts[1].rule.start_date)
           > MonthDayOf(active_alerts[2].rule.start_date)

\* C12: check_alerts and check_weather_trigger never raise, also for a
\* summary with missing fields and for zero or negative thresholds: a
\* missing field counts as 0 in the comparison and in the result.
C12_NeverRaisesMissingFieldIsZero ==
    /\ pc # "raised"
    /\ pc # "start" =>
           \A rule \in CatalogRules :
               ~check_weather_trigger(rule.weather_conditions, weather_analysis).raised
    /\ Returned =>
           \A rule \in CatalogRules :
               PassesChecks(rule) =>
                   (Fired(rule) <=> SatisfiedKeys(rule.weather_conditions) # {})

\* C13: every emitted alert has a non-empty trigger list with one string
\* per recognised condition of its rule that the summary satisfies; the
\* maize/wakiso rule with both conditions satisfied lists the rain and the
\* humidity explanation.
C13_OneTriggerPerSatisfiedCondition ==
    Returned =>
        \A i \in DOMAIN active_alerts :
            LET alert == active_alerts[i]
                wc == alert.rule.weather_conditions
            IN /\ Len(alert.weather_context) >= 1
               /\ Len(alert.weather_context) = Cardinality(SatisfiedKeys(wc))
               /\ Cardinality(TextsOf(alert.weather_context)) = Len(alert.weather_context)
               /\ ( /\ alert.rule = rule_maize_wakiso
                    /\ Rain24 > 30
                    /\ HumidityAbove(85) )
                  => TextsOf(alert.weather_context)
                         = {"Heavy rain expected: {}mm in 24h", "High humidity: {}%"}

C13_Witness ==
    /\ Returned
    /\ \E i \in DOMAIN active_alerts :
           /\ active_alerts[i].rule = rule_maize_wakiso
           /\ Len(active_alerts[i].weather_context) = 2

\* C14: for a forecast of N >= 1 days rainy_days_ahead is the number of
\* days among the first min(7, N) with rainfall strictly above 1 mm: a day
\* of exactly 1 mm and the days from index 7 on are not counted, and the
\* result lies in 0..min(7, N).
FirstDays(n) == IF Len(forecast) < n THEN Len(forecast) ELSE n

RECURSIVE RainyAmong(_)
RainyAmong(k) ==
    IF k = 0 THEN 0
    ELSE RainyAmong(k - 1) + (IF forecast[k].rainfall_mm > 1 THEN 1 ELSE 0)

C14_RainyDaysAhead ==
    (pc # "start" /\ Len(forecast) >= 1) =>
        /\ weather_analysis.rainy_days_ahead = RainyAmong(FirstDays(7))
        /\ weather_analysis.rainy_days_ahead \in 0..FirstDays(7)

C14_Witness ==
    /\ pc # "start"
    /\ Len(forecast) = 8
    /\ forecast[8].rainfall_mm = 2
    /\ forecast[7].rainfall_mm = 1
    /\ weather_analysis.rainy_days_ahead = 6

\* C15: for a forecast of N >= 1 days next_72h_rain is the rainfall summed
\* over the first min(3, N) days and next_24h_rain the rainfall of day 0;
\* later days change neither, and with non-negative rainfall
\* next_24h_rain <= next_72h_rain.
C15_RainTotals ==
    (pc # "start" /\ Len(forecast) >= 1) =>
        /\ weather_analysis.next_24h_rain = forecast[1].rainfall_mm
        /\ weather_analysis.next_72h_rain
               = forecast[1].rainfall_mm
                 + (IF Len(forecast) >= 2 THEN forecast[2].rainfall_mm ELSE 0)
                 + (IF Len(forecast) >= 3 THEN forecast[3].rainfall_mm ELSE 0)
        /\ (\A i \in DOMAIN forecast : forecast[i].rainfall_mm >= 0)
               => weather_analysis.next_24h_rain <= weather_analysis.next_72h_rain

C15_Witness ==
    /\ pc # "start"
    /\ Len(forecast) >= 4
    /\ forecast[4].rainfall_mm > 0
    /\ weather_analysis.next_72h_rain > weather_analysis.next_24h_rain

\* C18: a rule whose start_date is after its end_date (a window crossing
\* the year end, such as 12-15 to 01-15) never fires, also on dates inside
\* the intended calendar window such as 12-20 or 01-05.
CrossesYearEnd(rule) == MonthDayOf(rule.start_date) > MonthDayOf(rule.end_date)

C18_CrossYearWindowNeverFires ==
    Returned => \A rule \in CatalogRules : CrossesYearEnd(rule) => ~Fired(rule)

C18_Witness ==
    /\ Returned
    /\ Today = 105
    /\ \E rule \in CatalogRules :
           /\ CrossesYearEnd(rule)
           /\ rule.crop = crop
           /\ DistrictMatches(rule)
           /\ SatisfiedKeys(rule.weather_conditions) # {}
           /\ ~Fired(rule)

\* C16: a failed fetch becomes an empty forecast and does not propagate;
\* in main, whenever the forecast is empty (failed or genuinely empty)
\* neither analyze_weather_conditions nor check_alerts is called and no
\* alert is shown: evaluation happens only after a non-empty forecast.
AlertsShown == {i \in DOMAIN screen : screen[i].widget \in {"expander", "success"}}

C16_EmptyForecastSuppressesEvaluation ==
    /\ response.kind \notin {"none", "ok"} =>
           /\ forecast = <<>>
           /\ pc \in {"no_data", "rendered"}
           /\ screen[1] = Widget("error", "Unable to fetch weather data")
    /\ (pc # "main" /\ forecast = <<>>) =>
           /\ pc \in {"no_data", "rendered"}
           /\ DOMAIN weather_analysis = {}
           /\ active_alerts = <<>>
           /\ AlertsShown = {}
    /\ pc \in {"start", "analyzed", "done", "raised"} => forecast # <<>>
    /\ AlertsShown # {} => (forecast # <<>> /\ DOMAIN weather_analysis # {})

C16_Witness ==
    /\ pc = "rendered"
    /\ response.kind = "timeout"
    /\ forecast = <<>>
    /\ screen = <<Widget("error", "Unable to fetch weather data"),
                  Widget("error", "Unable to load weather data")>>

\* C19: in app.py, for every district and crop the sidebar can select and
\* every date and summary, the groundnuts planting rule (district 'gulu')
\* is never among the alerts, groundnuts being offered only for Wakiso;
\* every other rule of the catalog fires for some selectable pair.
FiresForSomeSelection(rule) ==
    \E sel \in Selections(DISTRICTS), date \in MainDates, resp \in OkResponses :
        FiredIn(check_alerts(sel[1], sel[2], date,
                             analyze_weather_conditions(
                                 get_weather_forecast(resp).forecast)).alerts,
                rule)

C19_GroundnutsRuleUnreachable ==
    ALERT_RULES = APP_ALERT_RULES =>
        /\ ~FiredIn(active_alerts, rule_groundnuts_gulu)
        /\ \A i \in DOMAIN screen : screen[i].text # rule_groundnuts_gulu.title
        /\ pc = "main" =>
               \A rule \in CatalogRules \ {rule_groundnuts_gulu} :
                   FiresForSomeSelection(rule)

C19_Witness ==
    /\ ALERT_RULES = APP_ALERT_RULES
    /\ pc = "rendered"
    /\ crop = s_groundnuts
    /\ InsideWindow(rule_groundnuts_gulu)
    /\ RainyDays >= 3
    /\ active_alerts = <<>>

\* C17: analyze_weather_conditions and check_alerts are pure with respect
\* to shared state: under any interleaving of sessions ALERT_RULES and each
\* session's forecast and arguments stay as they were, and a call that has
\* returned holds the result it gives when run alone on its arguments.
AloneResult(me) ==
    check_alerts(me.district, me.crop, me.current_date,
                 analyze_weather_conditions(me.forecast))

C17_PureUnderInterleaving ==
    [][ /\ ALERT_RULES' = ALERT_RULES
        /\ \A k \in DOMAIN sessions :
               /\ sessions'[k].forecast = sessions[k].forecast
               /\ sessions'[k].district = sessions[k].district
               /\ sessions'[k].crop = sessions[k].crop
               /\ sessions'[k].current_date = sessions[k].current_date
               /\ sessions'[k].pc \in {"loop", "done"} =>
                      sessions'[k].weather_analysis
                          = analyze_weather_conditions(sessions[k].forecast)
               /\ sessions'[k].pc = "done" =>
                      /\ ~AloneResult(sessions[k]).raised
                      /\ sessions'[k].active_alerts = AloneResult(sessions[k]).alerts
               /\ sessions'[k].pc = "raised" => AloneResult(sessions[k]).raised ]_vars

C17_Witness ==
    /\ pc = "sessions"
    /\ sessions[1].pc = "done"
    /\ sessions[2].pc = "loop"
    /\ sessions[2].rule_index = 2
    /\ sessions[1].active_alerts # <<>>
    /\ sessions[2].active_alerts # <<>>
    /\ sessions[1].active_alerts # sessions[2].active_alerts

====
